---- MODULE Spec2Model ----
(***************************************************************************)
(* VideoBlurrer (video_blur_core.py): the asynchronous blur / encode /     *)
(* audio pipeline, driven by one Qt event loop.  Every action below is one *)
(* callback of the worker (a slot, a QTimer.singleShot target or a public  *)
(* method) run to completion, or one event of a QProcess it launched.      *)
(***************************************************************************)
EXTENDS Integers, Sequences, FiniteSets, TLC

\* ---------------------------------------------------------------- bounds
MaxFrames == 2
MaxIOErrors == 1
\* frame.shape[1] and frame.shape[0] of the frames given to process_frame
FrameW == 17
FrameH == 10
\* the constructor is given blur_strength in -MaxStrength..MaxStrength
MaxStrength == 2
\* the number of frames of the source whose encode stage is followed alone
QueueFrames == 7
\* the number of jobs the window is followed through
MaxJobs == 2
\* blur_region is given corners up to Margin pixels outside the frame
Margin == 1

\* ------------------------------------------------------ program constants
\* (mutant) a drain tick that takes the whole queue
BatchSize_Whole == QueueFrames + 1
\* batch_size = 5
BatchSize == 5
ProgressEvery == 5
PitchThreshold == 10
\* blur_strength: int = 51
DefaultBlurStrength == 51
\* fractions, in tenths: self.face_padding = 0.2; padding=0.1 for license
\* plates; height * 0.5 and width * 0.1 for a class-0 face box
FacePadding == 2
\* (mutant) license plates padded like faces
PlatePadding_AsFace == FacePadding
PlatePadding == 1
UpperPart == 5
Widening == 1

\* The five external subprocesses of a run, in launch order.
Stages == {"encoder", "extract", "shift", "fallback", "merge"}

\* Exit codes a subprocess reports: success, and a failure code other than
\* the 1 the worker itself reports.
ExitCodes == {0, 2}

\* pitch_shift in hundredths of a semitone (0.09, 0.1, -0.1).
PitchShifts == {9, 10, -10}

\* QProcess::ProcessError values that can reach _on_process_error while a
\* process runs: ReadError, WriteError, UnknownError.
IOErrorKinds == {3, 4, 5}

\* Paths of the run: the temp artifacts and the job's output path.
TempAudio == "out.temp_audio.wav"
ShiftedAudio == "out.temp_audio.shifted.wav"
FallbackRaw == "out.fallback_raw_.wav"
FinalOutput == "out.final.mp4"
OutputPath == "out.mp4"

VARIABLES
    started,            \* start() has been invoked
    is_cancelled,       \* self.is_cancelled
    current_step,       \* self.current_step
    temp_files,         \* self.temp_files (a list of paths)
    cap,                \* self.cap: "none", "open", "released"
    source,             \* [opens, frames]: whether the input opens, its frame count
    pitch_shift,        \* self.pitch_shift, in hundredths of a semitone
    framesRead,         \* frames cap.read() has returned so far
    frame_count,        \* self.frame_count
    frame_queue,        \* self.frame_queue
    write_timer_active, \* self._write_timer_active
    written,            \* frames the encoder received on its stdin, in order
    proc,               \* per stage: "Unlaunched", "Starting", "Running", "NotRunning"
    enc,                \* the encoder QProcess (self.process): [writeClosed, deleted];
                        \* deleted is "no", "pending" (deleteLater() called) or "gone"
    exitCode,           \* per stage: the exit code reported, -1 before
    timers,             \* pending QTimer.singleShot callbacks
    mergeAudio,         \* the audio_file argument of the pending/launched _final_merge
    fallbackPaths,      \* [temp_audio_path, shifted_audio_path] set by the fallback
    fs,                 \* paths that exist on the filesystem
    outputContent,      \* what is at output_path: "none", "encoded", "merged"
    finished,           \* the finished(int) signal: one record per emission
    error,              \* the error(str) signal: one record per emission
    progressFrames,     \* frame_count values at which a frame progress message went out
    hist,               \* history: what the claims refer to (never read by the code)
    blur,               \* the blurring side of the object: the constructor's blur_strength
                        \* argument, self.blur_strength, and the last detection
                        \* process_frame handled with the region of the frame it rewrote
    gui                 \* the DefaceITApp window and the jobs it has created

pipelineVars ==
    <<started, is_cancelled, current_step, temp_files, cap, source, pitch_shift,
      framesRead, frame_count, frame_queue, write_timer_active, written, proc,
      enc, exitCode, timers, mergeAudio, fallbackPaths, fs, outputContent,
      finished, error, progressFrames, hist>>

vars == <<pipelineVars, blur, gui>>

\* ---------------------------------------------------------------- helpers
Range(s) == {s[i] : i \in 1..Len(s)}

Abs(x) == IF x < 0 THEN -x ELSE x

Min(a, b) == IF a < b THEN a ELSE b

\* QProcess.state() of a stage's process.
QState(s) == IF proc[s] \in {"Starting", "Running"} THEN proc[s] ELSE "NotRunning"

\* One emission of finished(code): besides the code, what held when it was
\* emitted (the cancel flag, whether _cleanup had run, the paths still tracked
\* in temp_files, and the tracked-at-some-time paths still on the filesystem).
Fin(code, cancelled, cleaned, tf, fsNow, addedNow, src) ==
    [code |-> code, afterCancel |-> cancelled, cleaned |-> cleaned,
     tracked |-> Range(tf), leftover |-> addedNow \cap fsNow, from |-> src]

\* One emission of error(msg); every error is followed, in the same callback,
\* by one finished(code): report is that emission's position in finished.
Err(msg, cancelled) ==
    [msg |-> msg, afterCancel |-> cancelled, report |-> Len(finished) + 1]

\* _cleanup: remove every tracked path that exists, forget the list, release cap.
CleanupFs(fsNow, tf) == fsNow \ Range(tf)

CleanupCap(c) == IF c # "none" THEN "released" ELSE c

\* (mutant) a callback that does not look at the cancel flag
CancelledGuard_Ignored == FALSE

\* The early-return guard every callback starts with.
CancelledGuard == is_cancelled

\* (mutant) cancel() without its early return
AlreadyCancelled_Never == FALSE

\* cancel(): the already-cancelled early return.
AlreadyCancelled == is_cancelled

\* _on_process_error: the errors it ignores (FailedToStart = 0, Crashed = 1).
IgnoredProcessError(e) == e = 0 \/ e = 1

\* The completion code _on_process_error reports.
ProcessErrorCode == 1

\* (mutant) the threshold test with the boundary value on the other side
NeedsShift_Strict(p) == Abs(p) > PitchThreshold

\* abs(self.pitch_shift) >= 0.1
NeedsShift(p) == Abs(p) >= PitchThreshold

\* ------------------------------------------------------- region blurring
\* The constructor arguments tried, the detectors of self.models and the
\* class ids they report.
Strengths == (-MaxStrength)..MaxStrength
ModelTypes == {"face", "license_plate"}
Classes == {0, 1}

\* box.xyxy of a detection: a box inside the frame, <<x1, y1, x2, y2>>.
Boxes ==
    {b \in (0..FrameW) \X (0..FrameH) \X (0..FrameW) \X (0..FrameH) :
        b[1] <= b[3] /\ b[2] <= b[4]}

Max(a, b) == IF a > b THEN a ELSE b

\* int(v * 0.t) for an integer v and t tenths: the product truncated toward
\* zero (0.1, 0.2 and 0.5 as doubles are not below their decimal values, so
\* the float product of a non-negative v never falls under an exact integer).
Tenths(v, t) == IF v >= 0 THEN (v * t) \div 10 ELSE -(((-v) * t) \div 10)

\* (mutant) the constructor keeping blur_strength as given
KernelSize_AsGiven(blur_strength) == blur_strength

\* self.blur_strength = blur_strength if blur_strength % 2 == 1 else blur_strength + 1
KernelSize(blur_strength) ==
    IF blur_strength % 2 = 1 THEN blur_strength ELSE blur_strength + 1

\* (mutant) a test that lets a box of no width or no height through
EmptyRegion_Strict(x1, y1, x2, y2) == x2 < x1 \/ y2 < y1

\* if x2 <= x1 or y2 <= y1: return frame
EmptyRegion(x1, y1, x2, y2) == x2 <= x1 \/ y2 <= y1

\* blur_region(frame, bbox, padding) on a frame of shape[1] = w, shape[0] = h:
\* the rectangle <<x1, y1, x2, y2>> whose pixels frame[y1:y2, x1:x2] it
\* rewrites, or <<>> when it returns the frame untouched.
BlurRegion(w, h, bbox, padding) ==
    LET width == bbox[3] - bbox[1]
        height == bbox[4] - bbox[2]
        pad_x == Tenths(width, padding)
        pad_y == Tenths(height, padding)
        p == IF padding > 0
             THEN <<Max(0, bbox[1] - pad_x), Max(0, bbox[2] - pad_y),
                    Min(w, bbox[3] + pad_x), Min(h, bbox[4] + pad_y)>>
             ELSE bbox
        x1 == Max(0, p[1])
        y1 == Max(0, p[2])
        x2 == Min(w, p[3])
        y2 == Min(h, p[4])
    IN IF EmptyRegion(x1, y1, x2, y2) THEN <<>> ELSE <<x1, y1, x2, y2>>

\* process_frame: the box handed to blur_region for a class-0 detection of
\* the face model (face_x1, face_y1, face_x2, face_y2).
FaceBox(w, box) ==
    LET height == box[4] - box[2]
        width == box[3] - box[1]
    IN <<Max(0, box[1] - Tenths(width, Widening)),
         box[2],
         Min(w, box[3] + Tenths(width, Widening)),
         box[2] + Tenths(height, UpperPart)>>

\* process_frame: what one detection makes blur_region rewrite.
DetectionRegion(w, h, model_type, cls, box) ==
    IF model_type = "face"
    THEN IF cls = 0
         THEN BlurRegion(w, h, FaceBox(w, box), FacePadding)
         ELSE BlurRegion(w, h, box, FacePadding)
    ELSE IF model_type = "license_plate"
    THEN BlurRegion(w, h, box, PlatePadding)
    ELSE <<>>

\* The object before __init__ ran with blur_strength = b, and after.
BlurArgs(b) ==
    [phase |-> "args", given |-> b, blur_strength |-> 0,
     detection |-> <<>>, blurred |-> <<>>]

Constructed(b) ==
    [phase |-> "ready", given |-> b, blur_strength |-> KernelSize(b),
     detection |-> <<>>, blurred |-> <<>>]

\* -------------------------------------------------------- the GUI window
JobIds == 1..MaxJobs

\* A job the window has not created yet.  loop is the event loop of the job's
\* QThread ("none", "running", "quit"); begun: start() has run; sub: a
\* subprocess of the job is running; terminated: terminate() was sent to it;
\* ticks: single-shot timers of the frame loop or the drain are pending;
\* reported: _on_process_error has reported.
NoJob ==
    [loop |-> "none", begun |-> FALSE, is_cancelled |-> FALSE, sub |-> FALSE,
     terminated |-> FALSE, ticks |-> FALSE, reported |-> FALSE]

\* DefaceITApp after __init__ and init_ui: no job, no thread (0 is None),
\* the cancel button disabled; inbox holds the signals queued for the GUI thread.
GuiInit ==
    [is_processing |-> FALSE, process_button |-> TRUE, cancel_button |-> FALSE,
     thread |-> 0, worker |-> 0, created |-> 0, inbox |-> <<>>,
     jobs |-> [j \in JobIds |-> NoJob]]

\* ------------------------------------------------------------------- Init
\* The pipeline side of the object after __init__, for the source src and
\* the pitch_shift argument p.
InitJob(src, p) ==
    /\ started = FALSE
    /\ is_cancelled = FALSE
    /\ current_step = "init"
    /\ temp_files = <<>>
    /\ cap = "none"
    /\ source = src
    /\ pitch_shift = p
    /\ framesRead = 0
    /\ frame_count = 0
    /\ frame_queue = <<>>
    /\ write_timer_active = FALSE
    /\ written = <<>>
    /\ proc = [s \in Stages |-> "Unlaunched"]
    /\ enc = [writeClosed |-> FALSE, deleted |-> "no"]
    /\ exitCode = [s \in Stages |-> -1]
    /\ timers = [next_frame |-> 0, write_batch |-> 0, force_kill |-> 0,
                 shift |-> 0, merge |-> 0]
    /\ mergeAudio = "none"
    /\ fallbackPaths = [temp_audio_path |-> "none", shifted_audio_path |-> "none"]
    /\ fs = {}
    /\ outputContent = "none"
    /\ finished = <<>>
    /\ error = <<>>
    /\ progressFrames = {}
    /\ hist = [added |-> {}, cancelCalls |-> "none", cancelStep |-> "none",
               runningAtCancel |-> {}, terminateAsked |-> {}, killed |-> {},
               ioErrors |-> 0, cleaned |-> FALSE, fallback |-> <<>>]

\* A job on any source of up to MaxFrames frames, with any of the pitch shifts.
InitPipeline ==
    \E src \in [opens : BOOLEAN, frames : 0..MaxFrames], p \in PitchShifts :
        InitJob(src, p)

\* A job constructed with the default blur_strength.
Init ==
    /\ InitPipeline
    /\ blur = Constructed(DefaultBlurStrength)
    /\ gui = GuiInit

\* ------------------------------------------------------------------ start
\* (mutant) a capture that always reports itself opened
IsOpened_Always == TRUE

\* self.cap.isOpened() right after cv2.VideoCapture(self.input_path)
IsOpened == source.opens

\* start(), with _open_video and _start_frame_processing_pipe, which it calls.
Start ==
    /\ UNCHANGED <<blur, gui>>
    /\ ~started
    /\ started' = TRUE
    /\ IF CancelledGuard
       THEN /\ finished' = Append(finished,
                   Fin(0, is_cancelled, hist.cleaned, temp_files, fs, hist.added, "start"))
            /\ UNCHANGED <<current_step, cap, proc, timers, error>>
       ELSE IF ~IsOpened
       THEN /\ current_step' = "open_video"
            /\ error' = Append(error, Err("Open video error", is_cancelled))
            /\ finished' = Append(finished,
                   Fin(1, is_cancelled, hist.cleaned, temp_files, fs, hist.added, "_open_video"))
            /\ UNCHANGED <<cap, proc, timers>>
       ELSE /\ current_step' = "process_frames"
            /\ cap' = "open"
            /\ proc' = [proc EXCEPT !["encoder"] = "Starting"]
            /\ timers' = [timers EXCEPT !.next_frame = 1]
            /\ UNCHANGED <<finished, error>>
    /\ UNCHANGED <<is_cancelled, temp_files, source, pitch_shift, framesRead,
                   frame_count, frame_queue, write_timer_active, written, enc,
                   exitCode, mergeAudio, fallbackPaths, fs, outputContent,
                   progressFrames, hist>>

\* The worker's event loop carries out a pending deleteLater() before it
\* dispatches any later timer or process event.
LoopIdle == enc.deleted # "pending"

DeferredDelete ==
    /\ UNCHANGED <<blur, gui>>
    /\ enc.deleted = "pending"
    /\ enc' = [enc EXCEPT !.deleted = "gone"]
    /\ UNCHANGED <<started, is_cancelled, current_step, temp_files, cap, source,
                   pitch_shift, framesRead, frame_count, frame_queue,
                   write_timer_active, written, proc, exitCode, timers, mergeAudio,
                   fallbackPaths, fs, outputContent, finished, error,
                   progressFrames, hist>>

\* ------------------------------------------------------------- frame loop

\* cap.read() returns a frame
HasFrame == cap = "open" /\ framesRead < source.frames

\* (mutant) a progress message after every frame
ProgressDue_Always(n) == TRUE

\* the cadence test of the frame progress message
ProgressDue(n) == n % ProgressEvery = 0

\* _process_next_frame (a QTimer.singleShot(0) target)
ProcessNextFrame ==
    /\ UNCHANGED <<blur, gui>>
    /\ LoopIdle
    /\ timers.next_frame > 0
    /\ IF CancelledGuard
       THEN /\ fs' = CleanupFs(fs, temp_files)
            /\ temp_files' = <<>>
            /\ cap' = CleanupCap(cap)
            /\ finished' = Append(finished,
                   Fin(0, is_cancelled, TRUE, <<>>, fs', hist.added, "_process_next_frame"))
            /\ timers' = [timers EXCEPT !.next_frame = 0]
            /\ hist' = [hist EXCEPT !.cleaned = TRUE]
            /\ UNCHANGED <<framesRead, frame_count, frame_queue, enc, progressFrames>>
       ELSE IF ~HasFrame
       THEN /\ cap' = "released"
            /\ enc' = [enc EXCEPT !.writeClosed = TRUE]
            /\ timers' = [timers EXCEPT !.next_frame = 0]
            /\ UNCHANGED <<fs, temp_files, finished, framesRead, frame_count,
                           frame_queue, progressFrames, hist>>
       ELSE /\ framesRead' = framesRead + 1
            /\ frame_queue' = Append(frame_queue, framesRead + 1)
            /\ frame_count' = frame_count + 1
            /\ progressFrames' = IF ProgressDue(frame_count')
                                 THEN progressFrames \cup {frame_count'}
                                 ELSE progressFrames
            /\ timers' = [timers EXCEPT
                   !.write_batch = IF ~write_timer_active THEN @ + 1 ELSE @,
                   !.next_frame = 1]
            /\ UNCHANGED <<fs, temp_files, cap, finished, enc, hist>>
    /\ UNCHANGED <<started, is_cancelled, current_step, source, pitch_shift,
                   write_timer_active, written, proc, exitCode, mergeAudio,
                   fallbackPaths, outputContent, error>>

\* (mutant) the batch taken from the end of the queue, frame_queue[-batch_size:]
Batch_FromEnd(q, n) == SubSeq(q, Len(q) - n + 1, Len(q))

\* batch = self.frame_queue[:batch_size], n being min(batch_size, len(queue))
Batch(q, n) == SubSeq(q, 1, n)

\* (mutant) a drain tick that only looks at the cancellation flag
DrainStandsDown_CancelOnly == CancelledGuard

\* if self.is_cancelled or self.process.state() != QProcess.Running:
DrainStandsDown == CancelledGuard \/ QState("encoder") # "Running"

\* _write_batch (a QTimer.singleShot(20) / (50) target).  process.write raises
\* at the failAt-th frame of the batch (0: no write raises); a write on a closed
\* write channel is dropped by QProcess.
WriteBatch ==
    /\ UNCHANGED <<blur, gui>>
    /\ LoopIdle
    /\ timers.write_batch > 0
    /\ IF DrainStandsDown
       THEN /\ write_timer_active' = FALSE
            /\ timers' = [timers EXCEPT !.write_batch = @ - 1]
            /\ UNCHANGED <<frame_queue, written, error, finished, hist>>
       ELSE LET n == Min(BatchSize, Len(frame_queue))
                batch == Batch(frame_queue, n)
                rest == SubSeq(frame_queue, n + 1, Len(frame_queue))
            IN \E failAt \in 0..(IF hist.ioErrors < MaxIOErrors THEN n ELSE 0) :
                 LET sent == IF failAt = 0 THEN batch ELSE SubSeq(batch, 1, failAt - 1)
                 IN /\ frame_queue' = rest
                    /\ written' = IF enc.writeClosed THEN written ELSE written \o sent
                    /\ IF failAt > 0
                       THEN /\ error' = Append(error, Err("Pipe write error", is_cancelled))
                            /\ finished' = Append(finished,
                                   Fin(1, is_cancelled, hist.cleaned, temp_files, fs, hist.added,
                                       "_write_batch"))
                            /\ hist' = [hist EXCEPT !.ioErrors = @ + 1]
                            /\ timers' = [timers EXCEPT !.write_batch = @ - 1]
                            /\ UNCHANGED write_timer_active
                       ELSE /\ IF rest # <<>>
                               THEN UNCHANGED <<timers, write_timer_active>>
                               ELSE /\ write_timer_active' = FALSE
                                    /\ timers' = [timers EXCEPT !.write_batch = @ - 1]
                            /\ UNCHANGED <<error, finished, hist>>
    /\ UNCHANGED <<started, is_cancelled, current_step, temp_files, cap, source,
                   pitch_shift, framesRead, frame_count, proc, enc, exitCode,
                   mergeAudio, fallbackPaths, fs, outputContent, progressFrames>>

\* ---------------------------------------------------------- encoder stage
\* (mutant) a failure test that only knows exit code 1
ExitFailed_OnlyOne(exit_code) == exit_code = 1

\* exit_code != 0, the failure test of every finished-callback
ExitFailed(exit_code) == exit_code # 0

\* A process that exits with code 0 has written its output file; one that
\* fails may leave a partial file.
MayCreate(exit_code) == IF exit_code = 0 THEN {TRUE} ELSE BOOLEAN

\* (mutant) a completion callback delivered while its process still runs
StateAtFinished_Running == "Running"

\* QProcess.state() of a process when the slot connected to its finished()
\* signal runs.
StateAtFinished == "NotRunning"

\* (mutant) _on_encoding_finished putting the step back to its first value
MergeAudioStep_Reset == "init"

\* self.current_step = "merge_audio"
MergeAudioStep == "merge_audio"

\* _on_encoding_finished(exit_code, exit_status), with _merge_audio_async,
\* which it calls.  A crashed process also delivers errorOccurred(Crashed),
\* which _on_process_error ignores, and a non-zero exit code.  The encoder
\* reads its frames from stdin ('-i', '-'): it exits with code 0 only after
\* the write channel was closed.
OnEncodingFinished ==
    /\ UNCHANGED <<blur, gui>>
    /\ LoopIdle
    /\ proc["encoder"] = "Running"
    /\ \E exit_code \in ExitCodes : \E created \in MayCreate(exit_code) :
         /\ exit_code = 0 => enc.writeClosed
         /\ LET fsE == IF created THEN fs \cup {OutputPath} ELSE fs
            IN
            /\ exitCode' = [exitCode EXCEPT !["encoder"] = exit_code]
            /\ outputContent' = IF created THEN "encoded" ELSE outputContent
            /\ IF CancelledGuard
               THEN /\ fs' = CleanupFs(fsE, temp_files)
                    /\ temp_files' = <<>>
                    /\ cap' = CleanupCap(cap)
                    /\ finished' = Append(finished,
                           Fin(0, is_cancelled, TRUE, <<>>, fs', hist.added,
                               "_on_encoding_finished"))
                    /\ proc' = [proc EXCEPT !["encoder"] = StateAtFinished]
                    /\ hist' = [hist EXCEPT !.cleaned = TRUE]
                    /\ UNCHANGED <<error, current_step, enc>>
               ELSE IF ExitFailed(exit_code)
               THEN /\ error' = Append(error, Err("Encoding failed", is_cancelled))
                    /\ finished' = Append(finished,
                           Fin(exit_code, is_cancelled, hist.cleaned, temp_files, fsE, hist.added,
                               "_on_encoding_finished"))
                    /\ fs' = fsE
                    /\ proc' = [proc EXCEPT !["encoder"] = StateAtFinished]
                    /\ UNCHANGED <<temp_files, cap, current_step, enc, hist>>
               ELSE /\ current_step' = MergeAudioStep
                    /\ enc' = [enc EXCEPT !.deleted = "pending"]
                    /\ temp_files' = Append(temp_files, TempAudio)
                    /\ hist' = [hist EXCEPT !.added = @ \cup {TempAudio}]
                    /\ proc' = [proc EXCEPT !["encoder"] = StateAtFinished,
                                            !["extract"] = "Starting"]
                    /\ fs' = fsE
                    /\ UNCHANGED <<cap, error, finished>>
    /\ UNCHANGED <<started, is_cancelled, source, pitch_shift, framesRead,
                   frame_count, frame_queue, write_timer_active, written, timers,
                   mergeAudio, fallbackPaths, progressFrames>>

\* ------------------------------------------------------------ audio chain
\* _on_audio_extract_finished(exit_code, temp_audio)
OnAudioExtractFinished ==
    /\ UNCHANGED <<blur, gui>>
    /\ LoopIdle
    /\ proc["extract"] = "Running"
    /\ \E exit_code \in ExitCodes : \E created \in MayCreate(exit_code) :
         LET fsE == IF created THEN fs \cup {TempAudio} ELSE fs
         IN /\ exitCode' = [exitCode EXCEPT !["extract"] = exit_code]
            /\ proc' = [proc EXCEPT !["extract"] = StateAtFinished]
            /\ IF CancelledGuard
               THEN /\ fs' = CleanupFs(fsE, temp_files)
                    /\ temp_files' = <<>>
                    /\ cap' = CleanupCap(cap)
                    /\ finished' = Append(finished,
                           Fin(0, is_cancelled, TRUE, <<>>, fs', hist.added,
                               "_on_audio_extract_finished"))
                    /\ hist' = [hist EXCEPT !.cleaned = TRUE]
                    /\ UNCHANGED <<error, current_step, timers, mergeAudio>>
               ELSE IF ExitFailed(exit_code)
               THEN /\ error' = Append(error,
                           Err("Audio extraction failed", is_cancelled))
                    /\ finished' = Append(finished,
                           Fin(exit_code, is_cancelled, hist.cleaned, temp_files, fsE, hist.added,
                               "_on_audio_extract_finished"))
                    /\ fs' = fsE
                    /\ UNCHANGED <<temp_files, cap, current_step, timers, mergeAudio,
                                   hist>>
               ELSE IF NeedsShift(pitch_shift)
               THEN /\ temp_files' = Append(temp_files, ShiftedAudio)
                    /\ hist' = [hist EXCEPT !.added = @ \cup {ShiftedAudio}]
                    /\ current_step' = "shift_audio"
                    /\ timers' = [timers EXCEPT !.shift = @ + 1]
                    /\ fs' = fsE
                    /\ UNCHANGED <<cap, error, finished, mergeAudio>>
               ELSE /\ current_step' = "final_merge"
                    /\ timers' = [timers EXCEPT !.merge = @ + 1]
                    /\ mergeAudio' = TempAudio
                    /\ fs' = fsE
                    /\ UNCHANGED <<temp_files, cap, error, finished, hist>>
    /\ UNCHANGED <<started, is_cancelled, source, pitch_shift, framesRead,
                   frame_count, frame_queue, write_timer_active, written, enc,
                   fallbackPaths, outputContent, progressFrames>>

\* _shift_audio_async(input_audio, output_audio) (a QTimer.singleShot(100) target)
ShiftAudioAsync ==
    /\ UNCHANGED <<blur, gui>>
    /\ LoopIdle
    /\ timers.shift > 0
    /\ timers' = [timers EXCEPT !.shift = @ - 1]
    /\ proc' = [proc EXCEPT !["shift"] = "Starting"]
    /\ UNCHANGED <<started, is_cancelled, current_step, temp_files, cap, source,
                   pitch_shift, framesRead, frame_count, frame_queue,
                   write_timer_active, written, enc, exitCode, mergeAudio,
                   fallbackPaths, fs, outputContent, finished, error,
                   progressFrames, hist>>

\* _on_shift_finished(exit_code, output_audio), with _extract_audio_for_fallback,
\* which it calls when the filter failed.
OnShiftFinished ==
    /\ UNCHANGED <<blur, gui>>
    /\ LoopIdle
    /\ proc["shift"] = "Running"
    /\ \E exit_code \in ExitCodes : \E created \in MayCreate(exit_code) :
         LET fsE == IF created THEN fs \cup {ShiftedAudio} ELSE fs
         IN /\ exitCode' = [exitCode EXCEPT !["shift"] = exit_code]
            /\ IF CancelledGuard
               THEN /\ fs' = CleanupFs(fsE, temp_files)
                    /\ temp_files' = <<>>
                    /\ cap' = CleanupCap(cap)
                    /\ finished' = Append(finished,
                           Fin(0, is_cancelled, TRUE, <<>>, fs', hist.added,
                               "_on_shift_finished"))
                    /\ proc' = [proc EXCEPT !["shift"] = StateAtFinished]
                    /\ hist' = [hist EXCEPT !.cleaned = TRUE]
                    /\ UNCHANGED <<current_step, timers, mergeAudio, fallbackPaths>>
               ELSE IF ExitFailed(exit_code)
               THEN /\ fallbackPaths' = [temp_audio_path |-> FallbackRaw,
                                         shifted_audio_path |-> ShiftedAudio]
                    /\ temp_files' = Append(temp_files, FallbackRaw)
                    /\ hist' = [hist EXCEPT !.added = @ \cup {FallbackRaw}]
                    /\ proc' = [proc EXCEPT !["shift"] = StateAtFinished,
                                            !["fallback"] = "Starting"]
                    /\ fs' = fsE
                    /\ UNCHANGED <<cap, finished, current_step, timers, mergeAudio>>
               ELSE /\ current_step' = "final_merge"
                    /\ timers' = [timers EXCEPT !.merge = @ + 1]
                    /\ mergeAudio' = ShiftedAudio
                    /\ proc' = [proc EXCEPT !["shift"] = StateAtFinished]
                    /\ fs' = fsE
                    /\ UNCHANGED <<temp_files, cap, finished, fallbackPaths, hist>>
    /\ UNCHANGED <<started, is_cancelled, source, pitch_shift, framesRead,
                   frame_count, frame_queue, write_timer_active, written, enc,
                   outputContent, error, progressFrames>>

\* (mutant) the in-process pitch shift called without the configured value
LibrosaSteps_Zero(p) == 0

\* librosa.effects.pitch_shift(y, sr=sr, n_steps=self.pitch_shift)
LibrosaSteps(p) == p

\* A fallback-extraction test that looks at the exit code alone.
FallbackExtractFailed_ExitOnly(exit_code, exists) == exit_code # 0

\* exit_code != 0 or not os.path.exists(self.temp_audio_path)
FallbackExtractFailed(exit_code, exists) == ExitFailed(exit_code) \/ ~exists

\* _on_fallback_extract_finished(exit_code, exit_status): the raw extraction
\* ended; librosa_ok is whether librosa.load / pitch_shift / sf.write then
\* complete without raising.
OnFallbackExtractFinished ==
    /\ UNCHANGED <<blur, gui>>
    /\ LoopIdle
    /\ proc["fallback"] = "Running"
    /\ \E exit_code \in ExitCodes, created \in BOOLEAN, librosa_ok \in BOOLEAN :
         LET fsE == IF created THEN fs \cup {fallbackPaths.temp_audio_path} ELSE fs
             ran(librosa) == <<[cancelled |-> is_cancelled, exit_code |-> exit_code,
                                file |-> fallbackPaths.temp_audio_path \in fsE,
                                librosa |-> librosa,
                                n_steps |-> IF librosa = "not_called" THEN 0
                                            ELSE LibrosaSteps(pitch_shift),
                                out |-> IF librosa = "not_called" THEN "none"
                                        ELSE fallbackPaths.shifted_audio_path]>>
         IN /\ exitCode' = [exitCode EXCEPT !["fallback"] = exit_code]
            /\ proc' = [proc EXCEPT !["fallback"] = StateAtFinished]
            /\ IF CancelledGuard
               THEN /\ fs' = CleanupFs(fsE, temp_files)
                    /\ temp_files' = <<>>
                    /\ cap' = CleanupCap(cap)
                    /\ finished' = Append(finished,
                           Fin(0, is_cancelled, TRUE, <<>>, fs', hist.added,
                               "_on_fallback_extract_finished"))
                    /\ hist' = [hist EXCEPT !.cleaned = TRUE, !.fallback = ran("not_called")]
                    /\ UNCHANGED <<error, current_step, timers, mergeAudio>>
               ELSE IF FallbackExtractFailed(exit_code,
                                             fallbackPaths.temp_audio_path \in fsE)
               THEN /\ error' = Append(error,
                           Err("Fallback audio extraction failed", is_cancelled))
                    /\ fs' = CleanupFs(fsE, temp_files)
                    /\ temp_files' = <<>>
                    /\ cap' = CleanupCap(cap)
                    /\ finished' = Append(finished,
                           Fin(1, is_cancelled, TRUE, <<>>, fs', hist.added,
                               "_on_fallback_extract_finished"))
                    /\ hist' = [hist EXCEPT !.cleaned = TRUE, !.fallback = ran("not_called")]
                    /\ UNCHANGED <<current_step, timers, mergeAudio>>
               ELSE IF librosa_ok
               THEN /\ fs' = fsE \cup {fallbackPaths.shifted_audio_path}
                    /\ current_step' = "final_merge"
                    /\ timers' = [timers EXCEPT !.merge = @ + 1]
                    /\ mergeAudio' = fallbackPaths.shifted_audio_path
                    /\ hist' = [hist EXCEPT !.fallback = ran("ok")]
                    /\ UNCHANGED <<temp_files, cap, error, finished>>
               ELSE /\ error' = Append(error,
                           Err("Librosa fallback failed", is_cancelled))
                    /\ fs' = CleanupFs(fsE, temp_files)
                    /\ temp_files' = <<>>
                    /\ cap' = CleanupCap(cap)
                    /\ finished' = Append(finished,
                           Fin(1, is_cancelled, TRUE, <<>>, fs', hist.added,
                               "_on_fallback_extract_finished"))
                    /\ hist' = [hist EXCEPT !.cleaned = TRUE, !.fallback = ran("raised")]
                    /\ UNCHANGED <<current_step, timers, mergeAudio>>
    /\ UNCHANGED <<started, is_cancelled, source, pitch_shift, framesRead,
                   frame_count, frame_queue, write_timer_active, written, enc,
                   fallbackPaths, outputContent, progressFrames>>

\* _final_merge(audio_file, temp_audio) (a QTimer.singleShot(100) / (50) target)
FinalMerge ==
    /\ UNCHANGED <<blur, gui>>
    /\ LoopIdle
    /\ timers.merge > 0
    /\ timers' = [timers EXCEPT !.merge = @ - 1]
    /\ temp_files' = Append(temp_files, FinalOutput)
    /\ hist' = [hist EXCEPT !.added = @ \cup {FinalOutput}]
    /\ proc' = [proc EXCEPT !["merge"] = "Starting"]
    /\ UNCHANGED <<started, is_cancelled, current_step, cap, source, pitch_shift,
                   framesRead, frame_count, frame_queue, write_timer_active,
                   written, enc, exitCode, mergeAudio, fallbackPaths, fs,
                   outputContent, finished, error, progressFrames>>

\* _on_final_merge_finished(exit_code, final_output, temp_audio)
OnFinalMergeFinished ==
    /\ UNCHANGED <<blur, gui>>
    /\ LoopIdle
    /\ proc["merge"] = "Running"
    /\ \E exit_code \in ExitCodes : \E created \in MayCreate(exit_code) :
         LET fsE == IF created THEN fs \cup {FinalOutput} ELSE fs
             fsR == (fsE \ {FinalOutput}) \cup {OutputPath}
         IN /\ exitCode' = [exitCode EXCEPT !["merge"] = exit_code]
            /\ proc' = [proc EXCEPT !["merge"] = StateAtFinished]
            /\ temp_files' = <<>>
            /\ cap' = CleanupCap(cap)
            /\ hist' = [hist EXCEPT !.cleaned = TRUE]
            /\ IF CancelledGuard
               THEN /\ fs' = CleanupFs(fsE, temp_files)
                    /\ finished' = Append(finished,
                           Fin(0, is_cancelled, TRUE, <<>>, fs', hist.added,
                               "_on_final_merge_finished"))
                    /\ UNCHANGED <<error, outputContent>>
               ELSE IF ~ExitFailed(exit_code)
               THEN /\ outputContent' = "merged"
                    /\ finished' = Append(finished,
                           Fin(0, is_cancelled, hist.cleaned, temp_files, fsR, hist.added,
                               "_on_final_merge_finished"))
                    /\ fs' = CleanupFs(fsR, temp_files)
                    /\ UNCHANGED error
               ELSE /\ error' = Append(error, Err("Audio merge failed", is_cancelled))
                    /\ finished' = Append(finished,
                           Fin(exit_code, is_cancelled, hist.cleaned, temp_files, fsE, hist.added,
                               "_on_final_merge_finished"))
                    /\ fs' = CleanupFs(fsE, temp_files)
                    /\ UNCHANGED outputContent
    /\ UNCHANGED <<started, is_cancelled, current_step, source, pitch_shift,
                   framesRead, frame_count, frame_queue, write_timer_active,
                   written, enc, timers, mergeAudio, fallbackPaths,
                   progressFrames>>

\* ------------------------------------------------------ process lifecycle
\* _on_process_error(error): what it emits.
OnProcessError(e) ==
    IF IgnoredProcessError(e)
    THEN UNCHANGED <<error, finished>>
    ELSE /\ error' = Append(error, Err("FFmpeg process error", is_cancelled))
         /\ finished' = Append(finished,
                Fin(ProcessErrorCode, is_cancelled, hist.cleaned, temp_files, fs, hist.added,
                    "_on_process_error"))

\* QProcess: a started process reaches Running.
ProcStarted ==
    /\ UNCHANGED <<blur, gui>>
    /\ LoopIdle
    /\ \E s \in Stages :
         /\ proc[s] = "Starting"
         /\ proc' = [proc EXCEPT ![s] = "Running"]
    /\ UNCHANGED <<started, is_cancelled, current_step, temp_files, cap, source,
                   pitch_shift, framesRead, frame_count, frame_queue,
                   write_timer_active, written, enc, exitCode, timers, mergeAudio,
                   fallbackPaths, fs, outputContent, finished, error,
                   progressFrames, hist>>

\* QProcess: the program could not be started.  errorOccurred(FailedToStart)
\* reaches _on_process_error; QProcess emits no finished() for it.
ProcFailedToStart ==
    /\ UNCHANGED <<blur, gui>>
    /\ LoopIdle
    /\ \E s \in Stages :
         /\ proc[s] = "Starting"
         /\ proc' = [proc EXCEPT ![s] = "NotRunning"]
    /\ OnProcessError(0)
    /\ UNCHANGED <<started, is_cancelled, current_step, temp_files, cap, source,
                   pitch_shift, framesRead, frame_count, frame_queue,
                   write_timer_active, written, enc, exitCode, timers, mergeAudio,
                   fallbackPaths, fs, outputContent, progressFrames, hist>>

\* QProcess: a read, write or unknown error on a running process reaches
\* _on_process_error.  Only the encoder is written to.
ProcIOError ==
    /\ UNCHANGED <<blur, gui>>
    /\ LoopIdle
    /\ hist.ioErrors < MaxIOErrors
    /\ \E s \in Stages, e \in IOErrorKinds :
         /\ proc[s] = "Running"
         /\ e = 4 => s = "encoder"
         /\ OnProcessError(e)
    /\ hist' = [hist EXCEPT !.ioErrors = @ + 1]
    /\ UNCHANGED <<started, is_cancelled, current_step, temp_files, cap, source,
                   pitch_shift, framesRead, frame_count, frame_queue,
                   write_timer_active, written, proc, enc, exitCode, timers,
                   mergeAudio, fallbackPaths, fs, outputContent, progressFrames>>

\* ----------------------------------------------------------- cancellation
\* cancel(), called from the GUI thread.  self.process is the encoder's
\* QProcess for the whole run; once the deleteLater() of _merge_audio_async
\* has been carried out, self.process.state() raises (the wrapped object is
\* gone) and cancel() ends right after setting the flag.
NextCall(c) == IF c = "none" THEN "once" ELSE "again"

Cancel ==
    /\ UNCHANGED <<blur, gui>>
    /\ IF AlreadyCancelled
       THEN /\ hist' = [hist EXCEPT !.cancelCalls = NextCall(@)]
            /\ UNCHANGED <<is_cancelled, enc, timers, finished>>
       ELSE /\ is_cancelled' = TRUE
            /\ LET raises == enc.deleted = "gone"
                     running == QState("encoder") = "Running"
                     live == QState("encoder") # "NotRunning"
               IN   /\ hist' = [hist EXCEPT
                           !.cancelCalls = NextCall(@),
                           !.cancelStep = current_step,
                           !.runningAtCancel = {s \in Stages : proc[s] = "Running"},
                           !.terminateAsked = IF ~raises /\ running
                                              THEN @ \cup {"encoder"} ELSE @]
                    /\ IF raises
                       THEN UNCHANGED <<enc, timers, finished>>
                       ELSE /\ timers' = IF running
                                         THEN [timers EXCEPT !.force_kill = @ + 1]
                                         ELSE timers
                            /\ enc' = IF live
                                      THEN [enc EXCEPT !.writeClosed = TRUE]
                                      ELSE enc
                            /\ finished' = Append(finished,
                                   Fin(0, TRUE, hist.cleaned, temp_files, fs, hist.added, "cancel"))
    /\ UNCHANGED <<started, current_step, temp_files, cap, source, pitch_shift,
                   framesRead, frame_count, frame_queue, write_timer_active,
                   written, proc, exitCode, mergeAudio, fallbackPaths, fs,
                   outputContent, error, progressFrames>>

\* _force_kill_process (the QTimer.singleShot(2000) target set by cancel())
ForceKillProcess ==
    /\ UNCHANGED <<blur, gui>>
    /\ LoopIdle
    /\ timers.force_kill > 0
    /\ timers' = [timers EXCEPT !.force_kill = @ - 1]
    /\ hist' = IF QState("encoder") = "Running"
               THEN [hist EXCEPT !.killed = @ \cup {"encoder"}]
               ELSE hist
    /\ UNCHANGED <<started, is_cancelled, current_step, temp_files, cap, source,
                   pitch_shift, framesRead, frame_count, frame_queue,
                   write_timer_active, written, proc, enc, exitCode, mergeAudio,
                   fallbackPaths, fs, outputContent, finished, error,
                   progressFrames>>

\* ---------------------------------------------------------- specification
Next ==
    \/ Start
    \/ ProcessNextFrame
    \/ WriteBatch
    \/ OnEncodingFinished
    \/ OnAudioExtractFinished
    \/ ShiftAudioAsync
    \/ OnShiftFinished
    \/ OnFallbackExtractFinished
    \/ FinalMerge
    \/ OnFinalMergeFinished
    \/ ProcStarted
    \/ ProcFailedToStart
    \/ ProcIOError
    \/ Cancel
    \/ ForceKillProcess
    \/ DeferredDelete

Spec == Init /\ [][Next]_vars

\* ------------------------------------------------ region blurring, alone
\* VideoBlurrer(blur_strength = blur.given, ...): __init__
Construct ==
    /\ blur.phase = "args"
    /\ blur' = Constructed(blur.given)
    /\ UNCHANGED <<pipelineVars, gui>>

\* process_frame(frame) on a FrameW x FrameH frame in which the detector
\* model_type reports one box of class cls.
ProcessFrame ==
    /\ blur.phase = "ready"
    /\ \E model_type \in ModelTypes, cls \in Classes, box \in Boxes :
         blur' = [blur EXCEPT
             !.phase = "done",
             !.detection = <<[model_type |-> model_type, cls |-> cls, box |-> box]>>,
             !.blurred = DetectionRegion(FrameW, FrameH, model_type, cls, box)]
    /\ UNCHANGED <<pipelineVars, gui>>

\* A job about to be constructed with some blur_strength; its pipeline is
\* never started.
InitBlur ==
    /\ InitPipeline
    /\ source = [opens |-> TRUE, frames |-> 0]
    /\ pitch_shift = PitchThreshold
    /\ blur \in {BlurArgs(b) : b \in Strengths}
    /\ gui = GuiInit

NextBlur ==
    \/ Construct
    \/ ProcessFrame

SpecBlur == InitBlur /\ [][NextBlur]_vars

\* ----------------------------------------------------- blur_region, alone
\* bbox arguments of blur_region: any two corners, in either order, inside
\* the frame or up to Margin pixels outside it
AnyBoxes ==
    ((-Margin)..(FrameW + Margin)) \X ((-Margin)..(FrameH + Margin))
        \X ((-Margin)..(FrameW + Margin)) \X ((-Margin)..(FrameH + Margin))

\* padding arguments, in tenths: the default 0.0, and the 0.1 and 0.2 that
\* process_frame passes
Paddings == {0, PlatePadding, FacePadding}

\* blur_region(frame, bbox, padding) on a FrameW x FrameH frame
CallBlurRegion ==
    /\ blur.phase = "ready"
    /\ \E bbox \in AnyBoxes, padding \in Paddings :
         blur' = [blur EXCEPT
             !.phase = "region",
             !.detection = <<[bbox |-> bbox, padding |-> padding]>>,
             !.blurred = BlurRegion(FrameW, FrameH, bbox, padding)]
    /\ UNCHANGED <<pipelineVars, gui>>

InitRegion ==
    /\ InitJob([opens |-> TRUE, frames |-> 0], PitchThreshold)
    /\ blur = Constructed(DefaultBlurStrength)
    /\ gui = GuiInit

NextRegion == CallBlurRegion

SpecRegion == InitRegion /\ [][NextRegion]_vars

\* --------------------------------------------------- encode stage, alone
\* A job on a source of QueueFrames frames, followed from start() through
\* its frame loop and drain ticks while the encoder starts and runs.
InitQueue ==
    /\ InitJob([opens |-> TRUE, frames |-> QueueFrames], PitchThreshold)
    /\ blur = Constructed(DefaultBlurStrength)
    /\ gui = GuiInit

NextQueue ==
    \/ Start
    \/ ProcessNextFrame
    \/ WriteBatch
    \/ ProcStarted

SpecQueue == InitQueue /\ [][NextQueue]_vars

\* ------------------------------------------------ the window and its jobs
\* The window creates one VideoBlurrer per job and moves it to a QThread of
\* its own.  Of a job the window's handlers need only: whether its thread's
\* event loop runs, whether one of its subprocesses runs, whether timers of
\* its frame loop are pending, and the signals it has emitted.  The signals
\* of a worker reach the window's slots through the GUI thread's event queue.
Signal(j, sig, code) == [job |-> j, sig |-> sig, code |-> code]

\* cleanup_thread on the window g: thread.quit(), thread.wait(5000),
\* self.thread = None, self.worker = None.  The worker's loop leaves after
\* the slot it is in, taken to end within the 5 s.
CleanupThread(g) ==
    [g EXCEPT !.jobs = IF g.thread # 0
                       THEN [@ EXCEPT ![g.thread].loop = "quit"]
                       ELSE @,
              !.thread = 0,
              !.worker = 0]

\* processing_complete(exit_code) on the window g (the message box it shows
\* is modal and changes nothing)
ProcessingComplete(g) ==
    CleanupThread([g EXCEPT !.is_processing = FALSE,
                            !.process_button = TRUE,
                            !.cancel_button = FALSE])

\* on_error(msg) on the window g
OnError(g) ==
    [g EXCEPT !.is_processing = FALSE,
              !.process_button = TRUE,
              !.cancel_button = FALSE]

\* start_processing returns at once: is_processing, or a thread that runs
StartIgnored(g) ==
    \/ g.is_processing
    \/ g.thread # 0 /\ g.jobs[g.thread].loop = "running"

\* a click on the start button: start_processing and process_video_Qthread
\* (the line edits hold an ffmpeg, an input and an output that pass the checks)
StartProcessing ==
    /\ UNCHANGED <<pipelineVars, blur>>
    /\ gui.process_button
    /\ gui.created < MaxJobs
    /\ IF StartIgnored(gui)
       THEN UNCHANGED gui
       ELSE LET j == gui.created + 1
            IN gui' = [gui EXCEPT !.is_processing = TRUE,
                                  !.process_button = FALSE,
                                  !.cancel_button = TRUE,
                                  !.created = j,
                                  !.thread = j,
                                  !.worker = j,
                                  !.jobs[j].loop = "running"]

\* a click on the cancel button: cancel_processing.  worker.cancel() runs in
\* the GUI thread, so the finished(0) it emits reaches processing_complete
\* as a direct call.
CancelProcessing ==
    /\ UNCHANGED <<pipelineVars, blur>>
    /\ gui.cancel_button
    /\ LET w == gui.worker
           g1 == IF w # 0 /\ ~gui.jobs[w].is_cancelled
                 THEN ProcessingComplete(
                          [gui EXCEPT !.jobs[w].is_cancelled = TRUE,
                                      !.jobs[w].terminated = gui.jobs[w].sub])
                 ELSE gui
       IN gui' = CleanupThread([g1 EXCEPT !.is_processing = FALSE,
                                          !.process_button = TRUE,
                                          !.cancel_button = FALSE])

\* the GUI thread runs the slot of the next queued signal
DeliverSignal ==
    /\ UNCHANGED <<pipelineVars, blur>>
    /\ gui.inbox # <<>>
    /\ LET g1 == [gui EXCEPT !.inbox = Tail(@)]
       IN gui' = IF Head(gui.inbox).sig = "error"
                 THEN OnError(g1)
                 ELSE ProcessingComplete(g1)

\* thread.started -> worker.start(), with _open_video and
\* _start_frame_processing_pipe: the encoder is started and the frame loop
\* scheduled, or the source does not open
WorkerStart ==
    /\ UNCHANGED <<pipelineVars, blur>>
    /\ \E j \in JobIds :
         /\ gui.jobs[j].loop = "running"
         /\ ~gui.jobs[j].begun
         /\ IF gui.jobs[j].is_cancelled
            THEN gui' = [gui EXCEPT !.jobs[j].begun = TRUE,
                                    !.inbox = Append(@, Signal(j, "finished", 0))]
            ELSE \E opens \in BOOLEAN :
                   gui' = IF opens
                          THEN [gui EXCEPT !.jobs[j].begun = TRUE,
                                           !.jobs[j].sub = TRUE,
                                           !.jobs[j].ticks = TRUE]
                          ELSE [gui EXCEPT !.jobs[j].begun = TRUE,
                                           !.inbox = @ \o <<Signal(j, "error", 1),
                                                            Signal(j, "finished", 1)>>]

\* _process_next_frame at the end of the source and the last _write_batch:
\* no timer of the job is pending any more
WorkerFrameLoopEnds ==
    /\ UNCHANGED <<pipelineVars, blur>>
    /\ \E j \in JobIds :
         /\ gui.jobs[j].loop = "running"
         /\ gui.jobs[j].ticks
         /\ gui' = [gui EXCEPT !.jobs[j].ticks = FALSE]

\* _on_process_error with an error that is neither FailedToStart nor
\* Crashed: error and finished(1) are emitted, the encoder keeps running
WorkerProcessError ==
    /\ UNCHANGED <<pipelineVars, blur>>
    /\ \E j \in JobIds :
         /\ gui.jobs[j].loop = "running"
         /\ gui.jobs[j].sub
         /\ ~gui.jobs[j].reported
         /\ gui' = [gui EXCEPT !.jobs[j].reported = TRUE,
                               !.inbox = @ \o <<Signal(j, "error", ProcessErrorCode),
                                                Signal(j, "finished", ProcessErrorCode)>>]

\* the finished-callback of the job's subprocess: a failure is reported with
\* the exit code; exit code 0 (only after the end of the source) stands for
\* the rest of the chain up to finished(0) of _on_final_merge_finished
WorkerProcessFinished ==
    /\ UNCHANGED <<pipelineVars, blur>>
    /\ \E j \in JobIds, exit_code \in ExitCodes :
         /\ gui.jobs[j].loop = "running"
         /\ gui.jobs[j].sub
         /\ exit_code = 0 => ~gui.jobs[j].ticks
         /\ gui' = IF ExitFailed(exit_code)
                   THEN [gui EXCEPT !.jobs[j].sub = FALSE,
                                    !.inbox = @ \o <<Signal(j, "error", exit_code),
                                                     Signal(j, "finished", exit_code)>>]
                   ELSE [gui EXCEPT !.jobs[j].sub = FALSE,
                                    !.inbox = Append(@, Signal(j, "finished", 0))]

\* the subprocess of a job whose thread has left its loop goes away: it
\* exits on the terminate() it was sent, or it is killed when the worker
\* object, which the window no longer refers to, is destroyed
SubprocessGone ==
    /\ UNCHANGED <<pipelineVars, blur>>
    /\ \E j \in JobIds :
         /\ gui.jobs[j].loop = "quit"
         /\ gui.jobs[j].sub
         /\ gui.jobs[j].terminated \/ gui.worker # j
         /\ gui' = [gui EXCEPT !.jobs[j].sub = FALSE, !.jobs[j].ticks = FALSE]

InitGui ==
    /\ InitJob([opens |-> TRUE, frames |-> 0], PitchThreshold)
    /\ blur = Constructed(DefaultBlurStrength)
    /\ gui = GuiInit

NextGui ==
    \/ StartProcessing
    \/ CancelProcessing
    \/ DeliverSignal
    \/ WorkerStart
    \/ WorkerFrameLoopEnds
    \/ WorkerProcessError
    \/ WorkerProcessFinished
    \/ SubprocessGone

SpecGui == InitGui /\ [][NextGui]_vars

\* ================================================================= claims
Reports == DOMAIN finished

Errors == DOMAIN error

\* No timer is pending and no subprocess is starting or running: nothing
\* more happens unless cancel() is called.
Quiescent ==
    /\ started
    /\ enc.deleted # "pending"
    /\ \A t \in DOMAIN timers : timers[t] = 0
    /\ \A s \in Stages : proc[s] \notin {"Starting", "Running"}

\* The subprocess of every stage of the run exited with code 0 (the pitch
\* shift, when one is configured, through the filter or through the fallback).
AllStagesSucceeded ==
    /\ exitCode["encoder"] = 0
    /\ exitCode["extract"] = 0
    /\ NeedsShift(pitch_shift) => (exitCode["shift"] = 0 \/ exitCode["fallback"] = 0)
    /\ exitCode["merge"] = 0

\* C1 (as claimed): whenever a completion code is reported, no path that was
\* added to temp_files during the run exists on the filesystem.
C1_NoArtifactAtCompletion ==
    \A i \in Reports : finished[i].leftover = {}

C3_SingleFailureReport ==
    (~is_cancelled /\ error # <<>>) =>
        /\ Len(error) = 1
        /\ Len(finished) = 1
        /\ finished[1].code # 0

\* C4 (as claimed): the finished signal is emitted at most once in a run.
C4_FinishedAtMostOnce ==
    Len(finished) <= 1

\* C5 (as claimed, in the form a finite run refutes): a started job that has
\* nothing left to run (the frame source is exhausted, every launched
\* subprocess exited or failed to start, no timer is pending) has reported a
\* completion code.
C5_QuiescentHasReported ==
    Quiescent => finished # <<>>

\* C6 (as claimed): every stage subprocess that was running when cancel() was
\* called has been asked to terminate, and is killed by the grace timer if it
\* is still running when the timer fires.
C6_CancelTerminatesRunning ==
    /\ \A s \in hist.runningAtCancel : s \in hist.terminateAsked
    /\ \A s \in hist.terminateAsked :
         (proc[s] = "Running" /\ timers.force_kill = 0) => s \in hist.killed

\* C7 (as claimed): every completion code 0 reported on a cancelled job is
\* reported after _cleanup has run.
C7_CleanupBeforeCancelReport ==
    \A i \in Reports :
        (finished[i].afterCancel /\ finished[i].code = 0) => finished[i].cleaned

\* C8 (as claimed): once cancel() has been called no error message is emitted
\* and no nonzero completion code is reported.
C8_NoErrorAfterCancel ==
    /\ \A j \in Errors : ~error[j].afterCancel
    /\ \A i \in Reports : finished[i].afterCancel => finished[i].code = 0

\* C9: a cancel() call on an already-cancelled job changes nothing: no field,
\* no signal, no timer, no process (only the call itself is counted).
C9_CancelIdempotent ==
    [][(is_cancelled /\ hist'.cancelCalls # hist.cancelCalls) =>
          /\ UNCHANGED <<started, is_cancelled, current_step, temp_files, cap,
                         source, pitch_shift, framesRead, frame_count, frame_queue,
                         write_timer_active, written, proc, enc, exitCode, timers,
                         mergeAudio, fallbackPaths, fs, outputContent, finished,
                         error, progressFrames>>
          /\ hist' = [hist EXCEPT !.cancelCalls = "again"]]_vars

\* C9 witness: cancel() was called again on a job it had already cancelled
\* while the encoder was running.
C9_Witness ==
    /\ hist.cancelCalls = "again"
    /\ is_cancelled
    /\ hist.runningAtCancel = {"encoder"}
    /\ timers.force_kill = 1

\* C10: a completion code 0 is reported only on a cancelled job or when the
\* subprocess of every stage exited with code 0, and the completion code that
\* accompanies an error message is never 0.
C10_ZeroOnlyOnSuccessOrCancel ==
    /\ \A i \in Reports :
         finished[i].code = 0 => (finished[i].afterCancel \/ AllStagesSucceeded)
    /\ \A j \in Errors :
         /\ error[j].report \in Reports
         /\ finished[error[j].report].code # 0

\* C10 witness: a run that was not cancelled reported code 0 after the pitch
\* filter failed and the fallback succeeded.
C10_Witness ==
    /\ exitCode["shift"] # 0
    /\ exitCode["fallback"] = 0
    /\ \E i \in Reports : finished[i].code = 0 /\ ~finished[i].afterCancel

\* C11: every frame read from the source is written to the encoder's input
\* exactly once before the write side of the pipe is closed: once end-of-stream
\* has been signalled (closeWriteChannel on a non-cancelled job) the frame
\* queue is empty and the frames written are exactly the frames read, in order.
C11_AllFramesWrittenBeforeEOF ==
    (enc.writeClosed /\ ~is_cancelled) =>
        /\ frame_queue = <<>>
        /\ written = [i \in 1..framesRead |-> i]

\* The subprocesses of the audio chain (extraction, pitch shift, fallback
\* extraction, merge).
AudioStages == Stages \ {"encoder"}

\* The finished-callback named handler ran on a cancelled job: it cleaned up
\* and reported code 0.
CancelledAt(handler) ==
    \E i \in Reports : /\ finished[i].from = handler
                       /\ finished[i].afterCancel
                       /\ finished[i].code = 0

\* The error message msg was emitted by handler together with completion
\* code `code`.
ReportedWith(msg, handler, code) ==
    \E j \in Errors : /\ error[j].msg = msg
                      /\ error[j].report \in Reports
                      /\ finished[error[j].report].from = handler
                      /\ finished[error[j].report].code = code

\* C12: if the encoder exits non-zero on a non-cancelled job, an encode-failed
\* error is reported with that exit code as the completion code; no audio
\* extraction, pitch-shift or merge subprocess is launched (or scheduled)
\* unless the encoder exited with code 0.
C12_EncodeFailureStopsChain ==
    /\ \A s \in AudioStages : proc[s] # "Unlaunched" => exitCode["encoder"] = 0
    /\ (timers.shift > 0 \/ timers.merge > 0) => exitCode["encoder"] = 0
    /\ exitCode["encoder"] \notin {-1, 0} =>
          \/ CancelledAt("_on_encoding_finished")
          \/ ReportedWith("Encoding failed", "_on_encoding_finished",
                          exitCode["encoder"])

\* The encoder exited with code 2 on a job that was never cancelled and the
\* encode-failed error was reported.
C12_Witness ==
    /\ exitCode["encoder"] = 2
    /\ ~is_cancelled
    /\ ReportedWith("Encoding failed", "_on_encoding_finished", 2)
    /\ \A s \in AudioStages : proc[s] = "Unlaunched"

\* A pipe-write error has been reported.
PipeWriteErrorReported == \E j \in Errors : error[j].msg = "Pipe write error"

\* C13: a write error while draining frames to a running encoder reports a
\* pipe-write error and aborts the encode stage: from then on no step reads
\* another frame from the source, writes another frame to the encoder, or
\* launches a subprocess of the audio chain.
C13_PipeErrorAbortsEncode ==
    [][PipeWriteErrorReported =>
          /\ framesRead' = framesRead
          /\ written' = written
          /\ \A s \in AudioStages : proc'[s] = "Unlaunched"]_vars

\* The stages whose subprocess failed to start: QProcess went from Starting
\* back to NotRunning without ever delivering an exit code.
FailedToStartStages == {s \in Stages : proc[s] = "NotRunning" /\ exitCode[s] = -1}

\* C14: if a stage's subprocess fails to start, exactly one error and one
\* failure completion code are reported for it (by _on_process_error, the only
\* callback a failed start reaches).
C14_FailedStartReportedOnce ==
    FailedToStartStages # {} =>
        /\ Cardinality({j \in Errors : error[j].msg = "FFmpeg process error"}) = 1
        /\ Cardinality({i \in Reports : /\ finished[i].from = "_on_process_error"
                                        /\ finished[i].code # 0}) = 1

\* _on_final_merge_finished ran on a job that was not cancelled.
MergeHandledUncancelled ==
    \E i \in Reports : /\ finished[i].from = "_on_final_merge_finished"
                       /\ ~finished[i].afterCancel

\* C15: the output path holds the merge output iff the merge subprocess
\* exited 0 on a non-cancelled job; after a failed or cancelled merge the
\* already-encoded video is still at the output path and the merge artifact
\* (out.final.mp4) is gone, never substituted in.
C15_OutputReplacedIffMergeOk ==
    /\ outputContent = "merged" <=>
          (exitCode["merge"] = 0 /\ MergeHandledUncancelled)
    /\ (exitCode["merge"] # -1 /\ ~(exitCode["merge"] = 0 /\ MergeHandledUncancelled)) =>
          /\ outputContent = "encoded"
          /\ OutputPath \in fs
          /\ FinalOutput \notin fs

\* The merge exited 0 on a job that was never cancelled and the output path
\* now holds the merged file.
C15_Witness ==
    /\ exitCode["merge"] = 0
    /\ ~is_cancelled
    /\ outputContent = "merged"
    /\ OutputPath \in fs
    /\ FinalOutput \notin fs

\* No pitch-shift, fallback or merge subprocess has been launched or is
\* scheduled to be.
NothingAfterExtract ==
    /\ \A s \in {"shift", "fallback", "merge"} : proc[s] = "Unlaunched"
    /\ timers.shift = 0
    /\ timers.merge = 0

\* C16 as stated: if audio extraction exits non-zero, the job reports an
\* extraction error and a non-zero completion code, and no pitch-shift,
\* fallback or merge subprocess is launched.
C16_ExtractFailureAlwaysReported ==
    exitCode["extract"] \notin {-1, 0} =>
        /\ \E c \in ExitCodes \ {0} :
              ReportedWith("Audio extraction failed", "_on_audio_extract_finished", c)
        /\ NothingAfterExtract

\* C16, amended: if audio extraction exits non-zero, no pitch-shift, fallback
\* or merge subprocess is launched; on a job that is not cancelled when the
\* exit is handled, an extraction error is reported with the exit code as the
\* (non-zero) completion code, and on a cancelled job the handler reports
\* code 0 and no extraction error.
C16_ExtractFailureStopsChain ==
    exitCode["extract"] \notin {-1, 0} =>
        /\ NothingAfterExtract
        /\ \/ /\ CancelledAt("_on_audio_extract_finished")
              /\ \A j \in Errors : error[j].msg # "Audio extraction failed"
           \/ ReportedWith("Audio extraction failed", "_on_audio_extract_finished",
                           exitCode["extract"])

\* Audio extraction exited with code 2 on a job that was never cancelled: the
\* extraction error and code 2 were reported and nothing was launched after.
C16_Witness ==
    /\ exitCode["extract"] = 2
    /\ ~is_cancelled
    /\ ReportedWith("Audio extraction failed", "_on_audio_extract_finished", 2)
    /\ NothingAfterExtract

\* The fallback failed: the raw extraction exited non-zero or left no file,
\* or librosa / soundfile raised.
FallbackFailed(in) ==
    in.exit_code # 0 \/ ~in.file \/ in.librosa = "raised"

\* What C17 promises after a failed fallback: one error of the fallback, a
\* report of code 1 made after _cleanup with no tracked artifact left, and no
\* merge launched or scheduled.
FallbackFailureReported ==
    /\ Cardinality({j \in Errors :
           error[j].msg \in {"Fallback audio extraction failed",
                             "Librosa fallback failed"}}) = 1
    /\ \E i \in Reports : /\ finished[i].from = "_on_fallback_extract_finished"
                          /\ finished[i].code = 1
                          /\ finished[i].cleaned
                          /\ finished[i].leftover = {}
                          /\ \E j \in Errors : error[j].report = i
    /\ proc["merge"] = "Unlaunched"
    /\ timers.merge = 0

\* C17 as stated: if the fallback extraction exits non-zero (or produces no
\* file) or the in-process pitch shift raises, the job reports one error,
\* deletes its temp artifacts, reports completion code 1 and never launches
\* the merge.
C17_FallbackFailureAlwaysReported ==
    \A k \in DOMAIN hist.fallback :
        FallbackFailed(hist.fallback[k]) => FallbackFailureReported

\* C17, amended: the same on a job that is not cancelled when the fallback
\* extraction's exit is handled; on a cancelled job the handler deletes the
\* temp artifacts and reports code 0 and no error, and the merge is never
\* launched either.
C17_FallbackFailureFailsJob ==
    \A k \in DOMAIN hist.fallback :
        LET in == hist.fallback[k]
        IN /\ (FallbackFailed(in) /\ ~in.cancelled) => FallbackFailureReported
           /\ in.cancelled =>
                 /\ CancelledAt("_on_fallback_extract_finished")
                 /\ \A j \in Errors :
                       error[j].msg \notin {"Fallback audio extraction failed",
                                            "Librosa fallback failed"}
                 /\ proc["merge"] = "Unlaunched"
                 /\ timers.merge = 0

\* The raw extraction of the fallback succeeded on a job that was never
\* cancelled and the pitch shift in librosa raised: the job failed with code 1.
C17_Witness ==
    /\ hist.fallback # <<>>
    /\ hist.fallback[1].librosa = "raised"
    /\ ~is_cancelled
    /\ FallbackFailureReported
    /\ temp_files = <<>>

\* The step in which the pitch-shift filter's non-zero exit is handled.
ShiftFailedStep == exitCode["shift"] = -1 /\ exitCode'["shift"] \notin {-1, 0}

\* C18 as stated: a non-zero exit of the pitch-shift filter produces no error
\* message and no completion code, and the pipeline continues with the
\* fallback extraction.
C18_ShiftFailureAlwaysFallsBack ==
    [][ShiftFailedStep =>
          /\ error' = error
          /\ finished' = finished
          /\ proc'["fallback"] = "Starting"]_vars

\* C18, amended: on a job that is not cancelled when the exit is handled, a
\* non-zero exit of the pitch-shift filter produces no error message and no
\* completion code and the fallback extraction is launched (its raw file
\* tracked); on a cancelled job the handler reports code 0, no error, and
\* launches nothing.
C18_ShiftFailureFallsBack ==
    [][ShiftFailedStep =>
          /\ error' = error
          /\ IF is_cancelled
             THEN /\ Len(finished') = Len(finished) + 1
                  /\ finished'[Len(finished')].code = 0
                  /\ finished'[Len(finished')].from = "_on_shift_finished"
                  /\ proc'["fallback"] = "Unlaunched"
             ELSE /\ finished' = finished
                  /\ proc'["fallback"] = "Starting"
                  /\ FallbackRaw \in Range(temp_files')]_vars

\* The pitch-shift filter exited with code 2 on a job that was never
\* cancelled: nothing was reported and the fallback extraction is running.
C18_Witness ==
    /\ exitCode["shift"] = 2
    /\ ~is_cancelled
    /\ proc["fallback"] = "Running"
    /\ error = <<>>
    /\ finished = <<>>

\* The pixels <<x, y>> of a rectangle <<x1, y1, x2, y2>> (frame[y1:y2, x1:x2]);
\* <<>> is no rectangle at all.
Pixels(r) ==
    IF r = <<>> THEN {} ELSE (r[1]..(r[3] - 1)) \X (r[2]..(r[4] - 1))

\* The intersection of a rectangle with the bounds of a w x h frame.
InFrame(w, h, r) ==
    LET x1 == Max(0, r[1])
        y1 == Max(0, r[2])
        x2 == Min(w, r[3])
        y2 == Min(h, r[4])
    IN IF x2 <= x1 \/ y2 <= y1 THEN <<>> ELSE <<x1, y1, x2, y2>>

\* The region C19 describes: the box restricted to its upper 50% height,
\* widened by 10% of its width on each side, then grown by the face padding
\* (as a fraction of that box's width and height), and only then intersected
\* with the frame bounds.
IdealFaceRegion(w, h, box) ==
    LET width == box[3] - box[1]
        height == box[4] - box[2]
        ux1 == box[1] - Tenths(width, Widening)
        ux2 == box[3] + Tenths(width, Widening)
        uy1 == box[2]
        uy2 == box[2] + Tenths(height, UpperPart)
        pad_x == Tenths(ux2 - ux1, FacePadding)
        pad_y == Tenths(uy2 - uy1, FacePadding)
    IN InFrame(w, h, <<ux1 - pad_x, uy1 - pad_y, ux2 + pad_x, uy2 + pad_y>>)

\* C19: for a class-0 box of the face detector, the set of pixels that
\* process_frame rewrites is exactly the intersection with the frame bounds of
\* the box restricted to its upper half, widened by 10% on each side and then
\* grown by the configured padding; every other pixel is left as it was.
C19_FaceRegionIsIdeal ==
    (/\ blur.phase = "done"
     /\ blur.detection[1].model_type = "face"
     /\ blur.detection[1].cls = 0) =>
        Pixels(blur.blurred) =
            Pixels(IdealFaceRegion(FrameW, FrameH, blur.detection[1].box))

\* n is odd / even, said without the remainder operator.
IsOdd(n) == \E k \in (-Abs(n) - 1)..Abs(n) : n = 2 * k + 1
IsEven(n) == \E k \in (-Abs(n))..Abs(n) : n = 2 * k

\* C20: for every integer blur_strength given to the constructor, the kernel
\* size kept in self.blur_strength is odd: an even argument is incremented by
\* one and an odd argument is kept unchanged.
C20_KernelSizeOdd ==
    blur.phase # "args" =>
        /\ IsOdd(blur.blur_strength)
        /\ IsEven(blur.given) => blur.blur_strength = blur.given + 1
        /\ IsOdd(blur.given) => blur.blur_strength = blur.given

\* The constructor was given a negative even blur_strength and keeps the next
\* integer.
C20_Witness ==
    /\ blur.phase = "ready"
    /\ blur.given < 0
    /\ IsEven(blur.given)
    /\ blur.blur_strength = blur.given + 1

\* The pipeline states C21 enumerates.
EnumeratedSteps ==
    {"init", "open_source", "process_frames", "encode_wait", "reencode",
     "extract_audio", "shift_audio", "final_merge", "done",
     "fallback_extract", "fallback_shift", "failed", "cancelled"}

\* C21 as stated: current_step always holds one of the enumerated pipeline
\* states.
C21_StepIsEnumerated == current_step \in EnumeratedSteps

\* The values the code gives current_step, in the order it assigns them.
CodeSteps ==
    <<"init", "open_video", "process_frames", "merge_audio", "shift_audio",
      "final_merge">>

StepRank(s) == CHOOSE i \in DOMAIN CodeSteps : CodeSteps[i] = s

\* C21, amended: current_step always holds one of init, open_video,
\* process_frames, merge_audio, shift_audio, final_merge and only moves
\* forward along that list (shift_audio is skipped when no pitch shift is
\* needed); the fallback after a shift failure runs under shift_audio, and
\* once a started job is cancelled current_step stays at the value it had:
\* there is no done, failed or cancelled value.
C21_StepsOnlyForward ==
    [][/\ current_step \in Range(CodeSteps)
       /\ current_step' \in Range(CodeSteps)
       /\ StepRank(current_step') >= StepRank(current_step)
       /\ (proc'["fallback"] \in {"Starting", "Running"}) => current_step' = "shift_audio"
       /\ (is_cancelled /\ started) => current_step' = current_step]_vars

\* The alternate branch was taken: the filter failed, the fallback succeeded
\* and the step moved from shift_audio to final_merge.
C21_Witness ==
    /\ exitCode["shift"] = 2
    /\ exitCode["fallback"] = 0
    /\ current_step = "final_merge"
    /\ ~is_cancelled

\* The stages whose subprocess has been started and has not ended.
LiveStages == {s \in Stages : proc[s] \in {"Starting", "Running"}}

\* The stages whose completion callback launches (directly or through the
\* timer it sets) the subprocess of stage s.
PreviousStages(s) ==
    CASE s = "encoder" -> {}
      [] s = "extract" -> {"encoder"}
      [] s = "shift" -> {"extract"}
      [] s = "fallback" -> {"shift"}
      [] s = "merge" -> {"extract", "shift", "fallback"}

\* C22: at every moment at most one external subprocess of the pipeline is
\* live, and a stage's subprocess is launched (or scheduled) only once the
\* subprocess of a previous stage has delivered its exit code and no other
\* subprocess is live.
C22_OneSubprocessAtATime ==
    /\ Cardinality(LiveStages) <= 1
    /\ \A s \in Stages \ {"encoder"} :
          (proc[s] # "Unlaunched") =>
              /\ \E q \in PreviousStages(s) : exitCode[q] # -1
              /\ \A q \in Stages \ {s} : proc[q] \in {"Unlaunched", "NotRunning"}
                                         \/ proc[s] = "NotRunning"
    /\ (timers.shift > 0 \/ timers.merge > 0) => LiveStages = {}

\* The extraction subprocess is running after the encoder has exited.
C22_Witness ==
    /\ proc["extract"] = "Running"
    /\ proc["encoder"] = "NotRunning"
    /\ exitCode["encoder"] = 0
    /\ LiveStages = {"extract"}

\* C23: after cancel() has been called no new external subprocess is
\* launched, launches deferred by a timer before the cancel included.
C23_NoLaunchAfterCancel ==
    [][is_cancelled =>
          \A s \in Stages : proc[s] = "Unlaunched" => proc'[s] = "Unlaunched"]_vars

\* _process_next_frame runs in this step (its pending 0 ms timer is consumed
\* or renewed by a read).
FrameLoopStep ==
    \/ timers'.next_frame < timers.next_frame
    \/ framesRead' # framesRead

\* C24: once the cancellation flag is set the frame loop reads no further
\* frame from the source; the run of _process_next_frame that sees the flag
\* ends the loop (no further tick is scheduled) with _cleanup and completion
\* code 0 and emits no error.
C24_NoReadAfterCancel ==
    [][is_cancelled =>
          /\ framesRead' = framesRead
          /\ frame_queue' = frame_queue \/ Len(frame_queue') < Len(frame_queue)
          /\ FrameLoopStep =>
                /\ timers'.next_frame = 0
                /\ error' = error
                /\ Len(finished') = Len(finished) + 1
                /\ finished'[Len(finished')].code = 0
                /\ finished'[Len(finished')].from = "_process_next_frame"
                /\ finished'[Len(finished')].cleaned
                /\ cap' # "open"]_vars

\* A job cancelled in the middle of its source: the loop has ended with the
\* cancelled outcome and a frame of the source was never read.
C24_Witness ==
    /\ is_cancelled
    /\ framesRead >= 1
    /\ framesRead < source.frames
    /\ timers.next_frame = 0
    /\ \E i \in Reports : finished[i].from = "_process_next_frame" /\ finished[i].code = 0

\* How many times _final_merge has been scheduled or has launched the merge
\* subprocess (a scheduled _final_merge always launches it).
MergeLaunches == timers.merge + (IF proc["merge"] # "Unlaunched" THEN 1 ELSE 0)

\* The in-process pitch shift of the fallback has been called.
LibrosaCalled ==
    \E k \in DOMAIN hist.fallback : hist.fallback[k].librosa # "not_called"

\* C25 as stated: when the pitch-shift filter exits non-zero, the fallback
\* extraction and then the in-process pitch shift are run with the configured
\* semitone value, writing to the path of the filter step, and in the whole
\* run (here: once the run has come to rest) the final merge has been
\* launched exactly once.
C25_FallbackAlwaysRunsAndMergesOnce ==
    (exitCode["shift"] \notin {-1, 0} /\ Quiescent) =>
        /\ proc["fallback"] # "Unlaunched"
        /\ LibrosaCalled
        /\ \A k \in DOMAIN hist.fallback :
              /\ hist.fallback[k].n_steps = pitch_shift
              /\ hist.fallback[k].out = ShiftedAudio
        /\ MergeLaunches = 1

\* C25, amended: when the pitch-shift filter exits non-zero on a job that is
\* not cancelled, the fallback extraction is launched; whenever the in-process
\* pitch shift is called it is given the configured semitone value and writes
\* to the path the filter step was to produce; if it succeeds the final merge
\* is launched exactly once, with that file as its audio, and in no run is the
\* final merge launched more than once.
C25_FallbackPitchAndSingleMerge ==
    /\ MergeLaunches <= 1
    /\ (exitCode["shift"] \notin {-1, 0} /\ ~CancelledAt("_on_shift_finished")) =>
          proc["fallback"] # "Unlaunched"
    /\ \A k \in DOMAIN hist.fallback :
          LET in == hist.fallback[k]
          IN /\ in.librosa # "not_called" =>
                   /\ in.n_steps = pitch_shift
                   /\ in.out = ShiftedAudio
                   /\ exitCode["shift"] \notin {-1, 0}
                   /\ in.exit_code = 0 /\ in.file /\ ~in.cancelled
             /\ in.librosa = "ok" =>
                   /\ MergeLaunches = 1
                   /\ mergeAudio = ShiftedAudio

\* The filter failed, the fallback's pitch shift succeeded and the merge it
\* scheduled has been launched.
C25_Witness ==
    /\ exitCode["shift"] = 2
    /\ hist.fallback # <<>>
    /\ hist.fallback[1].librosa = "ok"
    /\ hist.fallback[1].n_steps = pitch_shift
    /\ proc["merge"] = "Running"
    /\ ~is_cancelled

\* The magnitude of the configured pitch shift is below 0.1 semitone.
BelowThreshold == Abs(pitch_shift) < PitchThreshold

\* The audio extraction exited 0 and its exit was handled on a job that was
\* not cancelled.
ExtractSucceeded ==
    exitCode["extract"] = 0 /\ ~CancelledAt("_on_audio_extract_finished")

\* How many times _shift_audio_async has been scheduled or has launched the
\* filter.
ShiftLaunches == timers.shift + (IF proc["shift"] # "Unlaunched" THEN 1 ELSE 0)

\* C26: after a successful audio extraction, if |pitch_shift| < 0.1 no
\* pitch-shift subprocess (filter or fallback) is ever launched and the merge
\* is launched with the extracted audio file; otherwise the pitch-shift filter
\* is launched, and no merge is launched before the filter has ended.
C26_ShiftOnlyAtThreshold ==
    /\ BelowThreshold =>
          /\ ShiftLaunches = 0
          /\ proc["fallback"] = "Unlaunched"
          /\ ExtractSucceeded => (MergeLaunches = 1 /\ mergeAudio = TempAudio)
    /\ ~BelowThreshold =>
          /\ ExtractSucceeded => ShiftLaunches = 1
          /\ MergeLaunches > 0 =>
                /\ exitCode["shift"] # -1
                /\ mergeAudio = ShiftedAudio

\* A job with a pitch shift of 0.09: the merge runs on the extracted audio
\* and no filter was launched.
C26_Witness ==
    /\ BelowThreshold
    /\ exitCode["extract"] = 0
    /\ proc["merge"] = "Running"
    /\ mergeAudio = TempAudio
    /\ proc["shift"] = "Unlaunched"

\* ------------------------------------------------------------------- C27
\* C27: the frame queue length never exceeds a fixed bound, however far the
\* frame loop runs ahead of the encoder.  frame_queue is a plain list that
\* _process_next_frame appends to without any test of its length, so the only
\* limit is the length of the source: stated here as "the queue never holds
\* every frame of the source", which a bound independent of the source
\* implies for a source longer than the bound.
C27_QueueBounded == Len(frame_queue) < source.frames

\* ------------------------------------------------------------------- C28
\* C28: at any time at most one drain tick is pending: the number of
\* QTimer.singleShot timers whose target is _write_batch and that have not
\* fired yet is never more than one.
C28_OneDrainTickPending == timers.write_batch <= 1

\* ------------------------------------------------------------------- C29
\* C29: each drain tick removes at most 5 frames from the queue and writes at
\* most 5 frames to the encoder: no step shortens frame_queue by more than 5
\* or hands more than 5 frames to process.write, and what a step writes is
\* appended to what was written before.
C29_DrainAtMostFive ==
    [][ /\ Len(frame_queue) - Len(frame_queue') <= 5
        /\ Len(written') - Len(written) <= 5
        /\ Len(written') >= Len(written)
        /\ SubSeq(written', 1, Len(written)) = written ]_vars

\* a full batch has been written while later frames are still queued
C29_Witness ==
    /\ written = <<1, 2, 3, 4, 5>>
    /\ frame_queue = <<6, 7>>
    /\ QState("encoder") = "Running"

\* ------------------------------------------------------------------- C30
\* the frames 1..n in the order in which the frame loop produced them
Produced(n) == [i \in 1..n |-> i]

\* s lists frames in production order, none twice
InProductionOrder(s) == \A i, j \in 1..Len(s) : i < j => s[i] < s[j]

\* the step is a drain tick that takes the head of the queue
DrainStep ==
    /\ timers.write_batch > 0
    /\ QState("encoder") = "Running"
    /\ framesRead' = framesRead
    /\ \E n \in 1..Len(frame_queue) :
          frame_queue' = SubSeq(frame_queue, n + 1, Len(frame_queue))

\* the step is the frame loop producing one frame
ProduceStep ==
    /\ timers.next_frame > 0
    /\ framesRead' = framesRead + 1
    /\ frame_queue' = Append(frame_queue, framesRead')
    /\ written' = written

\* C30: frames are written to the encoder in exactly the order they were
\* produced: what has been written, followed by what is queued, lists frames
\* in production order, and is the whole production so far as long as no
\* write has raised and the write channel is open.  The queue length
\* decreases only in a drain tick, and increases only by one, at its end, per
\* produced frame.
C30_WrittenInProductionOrder ==
    /\ [](InProductionOrder(written \o frame_queue))
    /\ []((hist.ioErrors = 0 /\ ~enc.writeClosed)
             => written \o frame_queue = Produced(framesRead))
    /\ [][ /\ Len(frame_queue') < Len(frame_queue) => DrainStep
           /\ Len(frame_queue') > Len(frame_queue) => ProduceStep
           /\ written' # written => DrainStep ]_vars

\* the whole source has been written by more than one drain tick
C30_Witness ==
    /\ written = Produced(QueueFrames)
    /\ frame_queue = <<>>
    /\ QueueFrames > BatchSize

\* ------------------------------------------------------------------- C31
\* C31: a drain tick that runs while the encoder is not running writes
\* nothing and leaves the queue as it is, and no frame is ever written to an
\* encoder that is not running: a step taken while QProcess.state() of the
\* encoder is not Running writes no frame, and changes the queue at most by
\* the frame loop's append of the frame it has just read.
C31_NoWriteUnlessRunning ==
    [][ QState("encoder") # "Running"
          => /\ written' = written
             /\ \/ frame_queue' = frame_queue
                \/ /\ framesRead' = framesRead + 1
                   /\ frame_queue' = Append(frame_queue, framesRead') ]_vars

\* a drain tick has run, with frames queued, before the encoder was running:
\* every frame read set one tick, and one of them has fired
C31_Witness ==
    /\ proc["encoder"] = "Starting"
    /\ ~is_cancelled
    /\ frame_queue = <<1, 2>>
    /\ timers.write_batch < framesRead
    /\ written = <<>>

\* ------------------------------------------------------------------- C32
\* a failure completion code has been reported
FailureReported == \E i \in 1..Len(finished) : finished[i].code # 0

\* C32: once a failure completion code has been reported the worker performs
\* no further pipeline action: no frame is read or queued, no drain tick
\* writes or takes frames from the queue, and no subprocess is launched.
C32_NothingAfterFailure ==
    [][ FailureReported
          => /\ framesRead' = framesRead
             /\ frame_queue' = frame_queue
             /\ written' = written
             /\ \A s \in Stages : proc[s] = "Unlaunched" => proc'[s] = "Unlaunched" ]_vars

\* ------------------------------------------------------------------- C33
\* the job has a running subprocess or a pending tick its event loop will run
ActiveJob(j) ==
    \/ gui.jobs[j].sub
    \/ gui.jobs[j].ticks /\ gui.jobs[j].loop = "running"

\* C33: across any sequence of start_processing, cancel_processing and
\* processing_complete calls, at most one job has a running subprocess or a
\* pending tick at a time.
C33_AtMostOneActiveJob == Cardinality({j \in JobIds : ActiveJob(j)}) <= 1

\* ------------------------------------------------------------------- C34
\* the reports whose completion code is 1
FailureOnes == {i \in Reports : finished[i].code = 1}

\* C34: if the source video cannot be opened, exactly one error and
\* completion code 1 are reported, no encoder subprocess is launched and the
\* pipeline never enters process_frames.  For a source that does not open:
\* no subprocess of any stage is ever launched, no frame is read and
\* current_step is never process_frames; and once start() has run on the
\* job (not cancelled before), there is exactly one error, the open-video
\* error, reported together with the one completion code 1, and nothing is
\* reported besides but the code 0 of a later cancel().
C34_OpenFailureReportedOnce ==
    ~source.opens
       => /\ \A s \in Stages : proc[s] = "Unlaunched"
          /\ current_step # "process_frames"
          /\ framesRead = 0
          /\ (started /\ ~CancelledAt("start"))
                => /\ Len(error) = 1
                   /\ error[1].msg = "Open video error"
                   /\ error[1].report = 1
                   /\ finished[1].from = "_open_video"
                   /\ FailureOnes = {1}
                   /\ \A i \in Reports : i > 1 => /\ finished[i].from = "cancel"
                                                  /\ finished[i].code = 0

\* start() has failed to open the source and has reported
C34_Witness ==
    /\ ~source.opens
    /\ started
    /\ Len(finished) = 1
    /\ finished[1].code = 1
    /\ Len(error) = 1

\* ------------------------------------------------------------------- C35
\* C35: start() on a job whose cancellation flag is already set reports
\* completion code 0 without opening the source or launching any subprocess,
\* and leaves current_step at init: the step in which start() runs on a
\* cancelled job emits finished(0) and no error and changes nothing else, and
\* from then on the source is never opened, no frame is read, no subprocess
\* is launched and current_step is init.
C35_StartWhenCancelled ==
    /\ [][ (is_cancelled /\ ~started /\ started')
             => /\ Len(finished') = Len(finished) + 1
                /\ finished'[Len(finished')].code = 0
                /\ finished'[Len(finished')].from = "start"
                /\ error' = error
                /\ current_step' = "init"
                /\ cap' = "none"
                /\ proc' = proc
                /\ timers' = timers ]_vars
    /\ [](CancelledAt("start")
             => /\ current_step = "init"
                /\ cap = "none"
                /\ framesRead = 0
                /\ error = <<>>
                /\ \A s \in Stages : proc[s] = "Unlaunched"
                /\ \A i \in Reports : finished[i].code = 0)

\* start() has run on a job that cancel() had been called on before
C35_Witness ==
    /\ started
    /\ CancelledAt("start")
    /\ Len(finished) = 2
    /\ finished[1].from = "cancel"

\* ------------------------------------------------------------------- C36
\* the box grown by the padding on every side and cut to the w x h frame
PaddedClamped(w, h, bbox, padding) ==
    LET pad_x == Tenths(bbox[3] - bbox[1], padding)
        pad_y == Tenths(bbox[4] - bbox[2], padding)
    IN <<Max(0, bbox[1] - pad_x), Max(0, bbox[2] - pad_y),
         Min(w, bbox[3] + pad_x), Min(h, bbox[4] + pad_y)>>

\* a box of zero or negative width or height
Degenerate(r) == r[3] - r[1] <= 0 \/ r[4] - r[2] <= 0

\* C36: blur_region given a box that has zero or negative width or height
\* after padding and clamping to the frame returns the frame with every pixel
\* unchanged: it rewrites no region of the frame (and returns before the
\* frame is sliced or handed to cv2).
C36_DegenerateBoxSkipped ==
    (/\ blur.phase = "region"
     /\ Degenerate(PaddedClamped(FrameW, FrameH, blur.detection[1].bbox,
                                 blur.detection[1].padding)))
        => blur.blurred = <<>>

\* blur_region was given, with the face padding, a box of width 0 and
\* positive height inside the frame, and has left the frame untouched
C36_Witness ==
    /\ blur.phase = "region"
    /\ blur.detection[1].bbox[1] = blur.detection[1].bbox[3]
    /\ blur.detection[1].bbox[1] > 0
    /\ blur.detection[1].bbox[1] < FrameW
    /\ blur.detection[1].bbox[2] < blur.detection[1].bbox[4]
    /\ blur.detection[1].padding = FacePadding
    /\ blur.blurred = <<>>

\* ------------------------------------------------------------------- C37
\* The region C37 describes: the full box grown on each side by 10% of its
\* width and of its height (in whole pixels), as far as it lies in the frame.
IdealPlateRegion(w, h, box) ==
    LET tenthW == (box[3] - box[1]) \div 10
        tenthH == (box[4] - box[2]) \div 10
    IN InFrame(w, h, <<box[1] - tenthW, box[2] - tenthH,
                       box[3] + tenthW, box[4] + tenthH>>)

\* C37: every license-plate detection, of whatever class, is blurred over
\* its full bounding box with a fixed padding of 10%, not the face padding:
\* the pixels process_frame rewrites for it are those of the box grown by
\* 10% and cut to the frame.
C37_PlateRegionIsPaddedBox ==
    (/\ blur.phase = "done"
     /\ blur.detection[1].model_type = "license_plate")
        => Pixels(blur.blurred) =
               Pixels(IdealPlateRegion(FrameW, FrameH, blur.detection[1].box))

\* a plate wide enough for the 10% to be a pixel, and for 20% to be two
C37_Witness ==
    /\ blur.phase = "done"
    /\ blur.detection[1].model_type = "license_plate"
    /\ blur.detection[1].box = <<2, 1, 12, 5>>
    /\ blur.blurred = <<1, 1, 13, 5>>

\* ------------------------------------------------------------------- C38
\* k is a multiple of 5, said without the remainder operator
MultipleOfFive(k) == \E m \in 0..k : k = 5 * m

\* C38: during frame processing a progress message is emitted after the
\* k-th processed frame exactly when k is a multiple of 5: of the frames
\* processed so far, those after which the frame progress message went out
\* are the 5th, the 10th and so on.
C38_ProgressEveryFifthFrame ==
    /\ frame_count = framesRead
    /\ progressFrames = {k \in 1..frame_count : MultipleOfFive(k)}

\* frames before and after the fifth have been processed
C38_Witness ==
    /\ frame_count > 5
    /\ progressFrames = {5}

====
